---- MODULE Spec2Model ----
(***************************************************************************)
(* A model of the translation state engine of a-i18n (class I18n and its   *)
(* helpers in src/@src/Utils.js).                                          *)
(*                                                                         *)
(* Strings are sequences of one-character strings, so that the line codec  *)
(* (marker, key, separator, payload) is computed character by character as *)
(* the code computes it.  The JavaScript value `undefined` is Undef for a  *)
(* string and "undefined" for a flag.                                      *)
(*                                                                         *)
(* A handler is an operator from a world record (the engine state, the     *)
(* files on disk, the throttle helpers with their timers, the clock, the   *)
(* configuration and the pending exception) to the world record it leaves  *)
(* behind; an action of the state machine runs one public call, one watch  *)
(* event or one timer callback to completion.  A handler applied to a      *)
(* world that holds a pending exception leaves it as it is: that is how a  *)
(* throw skips the rest of the code up to the catch.                       *)
(*                                                                         *)
(* Spec is the engine as a library, not connected and without exporter:    *)
(* it leaves the clock out, and a timer that is set fires at any later     *)
(* step.  ConnectedSpec and ClockSpec are the engine with a listener, an   *)
(* exporter and autoExport, within one instant and with the clock running. *)
(* CodecSpec is the codec of payloads alone.                               *)
(***************************************************************************)
EXTENDS Integers, Sequences, FiniteSets, TLC

VARIABLES
  keys,           \* state.keys.array
  original,       \* state.original : FullKey -> entry
  updated,        \* state.updated  : FullKey -> entry
  updates,        \* state.updates  : [length, before, after]
  error,          \* state.error    (NoError models null)
  loaded,         \* state.loaded
  disk,           \* the locale files of the directory: name -> sequence of lines
  waitingChange,  \* `waiting` of the throttle around _triggerChange
  timerChange,    \* the timers set by that throttle that have not fired yet
  waitingExport,  \* `waiting` of the throttle around _autoExport
  timerExport,    \* the timers set by that throttle that have not fired yet
  dueExport,      \* the time the timer of that throttle is due
  waitingLoad,    \* `waiting` of the throttle connect() puts around load
  timerLoad,      \* the timers set by that throttle that have not fired yet
  dueLoad,        \* the time the timer of that throttle is due
  now,            \* getTime(), in milliseconds
  _lastTimeUpdated,    \* this._lastTimeUpdated
  _exportChangeIndex,  \* this._exportChangeIndex
  _onChange,      \* connect() has attached a listener and the watch callback
  notified,       \* the snapshots the listener has been handed
  autoExport,     \* this._config.autoExport
  exporter,       \* this._config.exporter
  hooks,          \* the calls the last export() made to the exporter's hooks
  keysChanged,    \* state.keys.changed
  keysUpdated,    \* state.keys.updated
  readers,        \* the locale files a line reader of load() is open on
  codec,          \* a payload on its way through safeValue$ and unsafeValue$
  call,           \* the public call (or timer) that made the last step
  calls           \* how many steps have been made

vars == <<keys, original, updated, updates, error, loaded, disk,
          waitingChange, timerChange, waitingExport, timerExport, dueExport,
          waitingLoad, timerLoad, dueLoad, now, _lastTimeUpdated,
          _exportChangeIndex, _onChange, notified, autoExport, exporter, hooks,
          keysChanged, keysUpdated, readers, codec, call, calls>>

----------------------------------------------------------------------------
(* Bounds of the model *)

\* the calls, timer firings and edits by hand of one run
MaxCalls == 3

\* the time, in milliseconds, up to which the clock of the connected engine runs
MaxTime == 3400

\* the length of a payload handed to the codec
MaxLen == 3

----------------------------------------------------------------------------
(* Constants.js is not part of the sources at hand: the markers are taken  *)
(* from the line format of the specification (one character each, all      *)
(* different).                                                             *)

CommentLine == "#"
ApprovedLine == "+"
NotApprovedLine == "-"
DeleteKeyLine == "!"
UpdateLine == "~"
KeyValueSeparator == "="
FullKeySeparator == ":"
NewLineSymbol == "^"

NewLine == "\n"
WhiteSpace == {" ", "\t", NewLine}

Undef == <<"undefined">>

----------------------------------------------------------------------------
(* String primitives of JavaScript, 0-based as in the code *)

\* s.indexOf(c)
IndexOf(s, c) ==
  IF \E i \in 1..Len(s) : s[i] = c
  THEN (CHOOSE i \in 1..Len(s) : s[i] = c /\ \A j \in 1..(i-1) : s[j] # c) - 1
  ELSE -1

\* s[i]
CharAt(s, i) == IF (i + 1) \in 1..Len(s) THEN s[i + 1] ELSE "undefined"

\* s.substring(from, to) and s.substring(from), for 0 <= from
Substring(s, from, to) == SubSeq(s, from + 1, to)
SubstringFrom(s, from) == SubSeq(s, from + 1, Len(s))

\* s.trim()
Trim(s) ==
  LET inner == {i \in 1..Len(s) : s[i] \notin WhiteSpace}
  IN  IF inner = {} THEN <<>>
      ELSE SubSeq(s, CHOOSE i \in inner : \A j \in inner : i <= j,
                     CHOOSE i \in inner : \A j \in inner : j <= i)

\* the total order of the Key Registry: strings compared character by character
Alphabet == <<NewLine, " ", "!", "#", "+", "-", ":", "=", "^", "a", "b", "c",
              "d", "e", "f", "x", "y", "z", "~">>
CharRank(c) == CHOOSE n \in 1..Len(Alphabet) : Alphabet[n] = c

RECURSIVE StrLess(_, _)
StrLess(s, t) ==
  IF Len(t) = 0 THEN FALSE
  ELSE IF Len(s) = 0 THEN TRUE
  ELSE IF s[1] = t[1] THEN StrLess(Tail(s), Tail(t))
  ELSE CharRank(s[1]) < CharRank(t[1])

----------------------------------------------------------------------------
(* Maps (plain JavaScript objects used as dictionaries) *)

EmptyMap == [x \in {} |-> 0]
Has(m, k) == k \in DOMAIN m
Put(m, k, v) == [x \in (DOMAIN m) \cup {k} |-> IF x = k THEN v ELSE m[x]]
Delete(m, k) == [x \in (DOMAIN m) \ {k} |-> m[x]]

----------------------------------------------------------------------------
(* Errors.js is not part of the sources at hand.  An error is a record: its *)
(* class, the "[file:line] " prefix load() puts before its message, the    *)
(* argument of its constructor, and the class of the error it wraps.       *)

NoError == [code |-> "none", file |-> <<>>, line |-> 0, detail |-> <<>>, cause |-> "none"]
Error(code, detail) == [NoError EXCEPT !.code = code, !.detail = detail]

InvalidLineError(line) == Error("InvalidLine", line)
DuplicateKeyError(typeAndKey) == Error("DuplicateKey", typeAndKey)
InvalidKeyError(key) == Error("InvalidKey", key)
KeyExistError(key) == Error("KeyExist", key)
KeyNotExistError(key) == Error("KeyNotExist", key)
NotLoadedError == Error("NotLoaded", <<>>)
NoI18nFilesError == Error("NoI18nFiles", <<>>)
UnappliedChangesError == Error("UnappliedChanges", <<>>)
InvalidFileError == Error("InvalidFile", <<>>)
NotResolvedError(e) == [e EXCEPT !.code = "NotResolved", !.cause = e.code]

\* e.stateError: the errors load() captures into state.error
stateError(e) == e.code \in {"InvalidLine", "DuplicateKey"}

----------------------------------------------------------------------------
(* Codecs *)

RECURSIVE ReplaceChar(_, _, _)
ReplaceChar(s, from, to) ==
  IF Len(s) = 0 THEN <<>>
  ELSE <<IF s[1] = from THEN to ELSE s[1]>> \o ReplaceChar(Tail(s), from, to)

safeValue(value) ==
  IF value = Undef THEN <<>> ELSE ReplaceChar(Trim(value), NewLine, NewLineSymbol)

unsafeValue(value) ==
  IF value = Undef THEN <<>> ELSE ReplaceChar(value, NewLineSymbol, NewLine)

FullKey(fileName, key) == fileName \o <<FullKeySeparator>> \o key

\* fullKey.split(FullKeySeparator): the array of the pieces
RECURSIVE splitFK(_)
splitFK(fullKey) ==
  LET i == IndexOf(fullKey, FullKeySeparator)
  IN  IF i = -1 THEN <<fullKey>>
      ELSE <<Substring(fullKey, 0, i)>> \o splitFK(SubstringFrom(fullKey, i + 1))

\* array[i] of JavaScript, 0-based, undefined past the end
ArrayAt(array, i) == IF (i + 1) \in 1..Len(array) THEN array[i + 1] ELSE Undef

_parseLine(line, typeIndex) ==
  LET type == CharAt(line, typeIndex)
      separatorIndex == IndexOf(line, KeyValueSeparator)
  IN  IF type \notin {CommentLine, ApprovedLine, NotApprovedLine, DeleteKeyLine}
      THEN [err |-> InvalidLineError(line), type |-> type, key |-> <<>>, value |-> <<>>]
      ELSE IF separatorIndex <= typeIndex
      THEN [err |-> InvalidLineError(line), type |-> type, key |-> <<>>, value |-> <<>>]
      ELSE [err |-> NoError, type |-> type,
            key |-> Substring(line, typeIndex + 1, separatorIndex),
            value |-> SubstringFrom(line, separatorIndex + 1)]

_validateKey(key) ==
  IF key # Undef /\ Len(key) > 0 /\ IndexOf(key, KeyValueSeparator) = -1
  THEN NoError
  ELSE InvalidKeyError(key)

----------------------------------------------------------------------------
(* Translation entries: { key, value?, comment?, approved? } *)

NewTranslation(key) ==
  [key |-> key, value |-> Undef, comment |-> Undef, approved |-> "undefined"]

\* the value of a property that is present and holds undefined
UndefinedEntry == NewTranslation(Undef)

Bool(b) == IF b THEN "true" ELSE "false"

----------------------------------------------------------------------------
(* SortedArray.js is not part of the sources at hand: the Key Registry is   *)
(* modelled from its contract.                                             *)

Contains(array, key) == \E i \in 1..Len(array) : array[i] = key

\* position for insertion, or -1 when the key is already present
sortedIndexOf(array, key) ==
  IF Contains(array, key) THEN -1
  ELSE Cardinality({i \in 1..Len(array) : StrLess(array[i], key)})

\* position of the key, or -1
indexOf(array, key) ==
  IF Contains(array, key)
  THEN (CHOOSE i \in 1..Len(array) : array[i] = key /\ \A j \in 1..(i-1) : array[j] # key) - 1
  ELSE -1

insert(array, position, key) ==
  SubSeq(array, 1, position) \o <<key>> \o SubSeq(array, position + 1, Len(array))

\* the array after remove(key); remove returns Contains(array, key)
remove(array, key) ==
  LET i == indexOf(array, key)
  IN  IF i = -1 THEN array
      ELSE SubSeq(array, 1, i) \o SubSeq(array, i + 2, Len(array))

----------------------------------------------------------------------------
(* The world a handler runs in *)

\* the names a directory listing can hold, in the order filesIn returns them
FileOrder == << <<"e">>, <<"f">> >>

World == [keys |-> keys, original |-> original, updated |-> updated,
          updates |-> updates, error |-> error, loaded |-> loaded,
          disk |-> disk,
          waitingChange |-> waitingChange, timerChange |-> timerChange,
          waitingExport |-> waitingExport, timerExport |-> timerExport,
          dueExport |-> dueExport,
          waitingLoad |-> waitingLoad, timerLoad |-> timerLoad,
          dueLoad |-> dueLoad,
          now |-> now, _lastTimeUpdated |-> _lastTimeUpdated,
          _exportChangeIndex |-> _exportChangeIndex,
          _onChange |-> _onChange, notified |-> notified,
          autoExport |-> autoExport, exporter |-> exporter, hooks |-> hooks,
          keysChanged |-> keysChanged, keysUpdated |-> keysUpdated,
          readers |-> readers,
          exc |-> NoError]

Throw(w, e) == [w EXCEPT !.exc = e]
Thrown(w) == w.exc.code # "none"

\* state.keys.insert(state.keys.sortedIndexOf(key), key); SortedArray.js is
\* not part of the sources at hand: `changed` is taken to be raised by every
\* call that changes the array
keysInsert(w, key) ==
  [w EXCEPT !.keys = insert(w.keys, sortedIndexOf(w.keys, key), key),
            !.keysChanged = TRUE]

\* state.keys.remove(key)
keysRemove(w, key) ==
  [w EXCEPT !.keys = remove(w.keys, key),
            !.keysChanged = @ \/ Contains(w.keys, key)]

\* a string, as a condition of JavaScript
Truthy(s) == s # Undef /\ Len(s) > 0

\* the throttle without its test of `waiting`
_triggerChange_noWaitingTest(w) ==
  IF Thrown(w) THEN w
  ELSE [w EXCEPT !.waitingChange = TRUE, !.timerChange = @ + 1]

\* the function debounceAction$ returns, for _triggerChange (initialize, delay 0)
_triggerChange(w) ==
  IF Thrown(w) \/ w.waitingChange THEN w
  ELSE [w EXCEPT !.waitingChange = TRUE, !.timerChange = @ + 1]

\* the function debounceAction$ returns, for _autoExport (initialize, delay 300)
_autoExport(w) ==
  IF Thrown(w) \/ w.waitingExport THEN w
  ELSE [w EXCEPT !.waitingExport = TRUE, !.timerExport = @ + 1,
                 !.dueExport = w.now + 300]

\* this._lastTimeUpdated = getTime()
setLastTimeUpdated(w) ==
  IF Thrown(w) THEN w ELSE [w EXCEPT !._lastTimeUpdated = w.now]

_resetUpdates(w) ==
  [w EXCEPT !.updates = [length |-> 0, before |-> EmptyMap, after |-> EmptyMap],
            !.original = w.updated,
            !.updated = EmptyMap]

_resetState(w) ==
  _resetUpdates([w EXCEPT !.keys = <<>>, !.keysChanged = FALSE,
                          !.keysUpdated = "undefined", !.updated = EmptyMap,
                          !.error = NoError, !.loaded = FALSE])

\* _validateAction without its test of state.error
_validateAction_noErrorTest(w, fnName) ==
  IF fnName \in {"load", "connect", "export"} THEN NoError
  ELSE IF ~w.loaded THEN NotLoadedError
  ELSE NoError

_validateAction(w, fnName) ==
  IF fnName \in {"load", "connect", "export"} THEN NoError
  ELSE IF ~w.loaded THEN NotLoadedError
  ELSE IF w.error.code # "none" THEN NotResolvedError(w.error)
  ELSE NoError

\* this[fnName] as initialize() installs it: the gate, then the method, whose
\* outcome is `result`
Wrapped(w, fnName, result) ==
  IF Thrown(w) THEN w
  ELSE IF _validateAction(w, fnName).code # "none"
  THEN Throw(w, _validateAction(w, fnName))
  ELSE result

_findI18nFiles(w) == SelectSeq(FileOrder, LAMBDA name : name \in DOMAIN w.disk)

\* the fields a parsed line sets on a translation
SetFields(translation, parsedLine) ==
  IF parsedLine.type = CommentLine
  THEN [translation EXCEPT !.comment = parsedLine.value]
  ELSE [translation EXCEPT !.value = parsedLine.value,
                           !.approved = Bool(parsedLine.type = ApprovedLine)]

\* targetObject is state.original ("original") or state.updates.after ("after")
_resolveTranslation(w, fullKey, parsedLine, targetObject) ==
  IF targetObject = "original"
  THEN [w EXCEPT
          !.original = Put(w.original, fullKey,
             SetFields(IF Has(w.original, fullKey) THEN w.original[fullKey]
                       ELSE NewTranslation(parsedLine.key), parsedLine)),
          !.updated = Put(w.updated, fullKey,
             SetFields(IF Has(w.original, fullKey) THEN w.original[fullKey]
                       ELSE NewTranslation(parsedLine.key), parsedLine))]
  ELSE [w EXCEPT
          !.updates.after = Put(w.updates.after, fullKey,
             SetFields(IF Has(w.updates.after, fullKey) THEN w.updates.after[fullKey]
                       ELSE NewTranslation(parsedLine.key), parsedLine)),
          !.updated = Put(w.updated, fullKey,
             SetFields(IF Has(w.updates.after, fullKey) THEN w.updates.after[fullKey]
                       ELSE NewTranslation(parsedLine.key), parsedLine))]

\* _updateState from `updates.length++` on
UpdateParsed(w, fullKey, parsedLine) ==
  IF parsedLine.type = DeleteKeyLine
  THEN [w EXCEPT
          !.updates.length = w.updates.length + 1,
          !.updates.before = Put(w.updates.before, fullKey,
                                 IF Has(w.original, fullKey) THEN w.original[fullKey]
                                 ELSE UndefinedEntry),
          !.updates.after = Delete(w.updates.after, fullKey),
          !.updated = Delete(w.updated, fullKey),
          !.keys = remove(w.keys, parsedLine.key),
          !.keysChanged = @ \/ Contains(w.keys, parsedLine.key)]
  ELSE _resolveTranslation(
         [w EXCEPT
            !.updates.length = w.updates.length + 1,
            !.updates.before = Put(w.updates.before, fullKey,
                                   IF Has(w.original, fullKey) THEN w.original[fullKey]
                                   ELSE UndefinedEntry)],
         fullKey, parsedLine, "after")

\* _updateState from the call of _parseLine on
UpdateLineParsed(w, fileName, parsedLine) ==
  IF parsedLine.err.code # "none" THEN Throw(w, parsedLine.err)
  ELSE UpdateParsed(w, FullKey(fileName, parsedLine.key), parsedLine)

_updateState(w, fileName, line) ==
  IF Thrown(w) THEN w
  ELSE IF IndexOf(line, NewLine) >= 0 THEN Throw(w, InvalidLineError(line))
  ELSE UpdateLineParsed(w, fileName, _parseLine(line, 1))

_updateKeys(w) == (DOMAIN w.updates.before) \cup (DOMAIN w.updates.after)

\* the translation save() takes for a file and a key: state.updated[fullKey] || {}
SaveEntry(w, fileName, key) ==
  IF Has(w.updated, FullKey(fileName, key))
  THEN w.updated[FullKey(fileName, key)] ELSE NewTranslation(Undef)

\* t.comment && t.comment.trim().length > 0, and the same of t.value
NotBlank(s) == Truthy(s) /\ Len(Trim(s)) > 0

\* save() deciding on the lines of a key from the entry of the file alone
SaveKeyLines_ownEntry(w, files, fileName, key) ==
  (IF NotBlank(SaveEntry(w, fileName, key).comment)
   THEN << <<CommentLine>> \o key \o <<KeyValueSeparator>>
             \o SaveEntry(w, fileName, key).comment >>
   ELSE <<>>)
  \o
  (IF NotBlank(SaveEntry(w, fileName, key).comment)
      \/ NotBlank(SaveEntry(w, fileName, key).value)
   THEN << <<IF SaveEntry(w, fileName, key).approved = "true"
             THEN ApprovedLine ELSE NotApprovedLine>>
             \o key \o <<KeyValueSeparator>>
             \o (IF SaveEntry(w, fileName, key).value = Undef
                 THEN <<>> ELSE SaveEntry(w, fileName, key).value) >>
   ELSE <<>>)

\* save() writing the value line of a key before its comment line
SaveKeyLines_valueFirst(w, files, fileName, key) ==
  (IF \E i \in 1..Len(files) :
        NotBlank(SaveEntry(w, files[i], key).comment)
        \/ NotBlank(SaveEntry(w, files[i], key).value)
   THEN << <<IF SaveEntry(w, fileName, key).approved = "true"
             THEN ApprovedLine ELSE NotApprovedLine>>
             \o key \o <<KeyValueSeparator>>
             \o (IF SaveEntry(w, fileName, key).value = Undef
                 THEN <<>> ELSE SaveEntry(w, fileName, key).value) >>
   ELSE <<>>)
  \o
  (IF \E i \in 1..Len(files) : NotBlank(SaveEntry(w, files[i], key).comment)
   THEN << <<CommentLine>> \o key \o <<KeyValueSeparator>>
             \o (IF SaveEntry(w, fileName, key).comment = Undef
                 THEN <<>> ELSE SaveEntry(w, fileName, key).comment) >>
   ELSE <<>>)

\* the lines save() writes to one file for one key
SaveKeyLines(w, files, fileName, key) ==
  LET hasComment == \E i \in 1..Len(files) : NotBlank(SaveEntry(w, files[i], key).comment)
      hasValue == \E i \in 1..Len(files) : NotBlank(SaveEntry(w, files[i], key).value)
      t == SaveEntry(w, fileName, key)
  IN  (IF hasComment
       THEN << <<CommentLine>> \o key \o <<KeyValueSeparator>>
                 \o (IF t.comment = Undef THEN <<>> ELSE t.comment) >>
       ELSE <<>>)
      \o
      (IF hasComment \/ hasValue
       THEN << <<IF t.approved = "true" THEN ApprovedLine ELSE NotApprovedLine>>
                 \o key \o <<KeyValueSeparator>>
                 \o (IF t.value = Undef THEN <<>> ELSE t.value) >>
       ELSE <<>>)

RECURSIVE SaveLines(_, _, _, _)
SaveLines(w, files, fileName, array) ==
  IF Len(array) = 0 THEN <<>>
  ELSE SaveKeyLines(w, files, fileName, Head(array))
       \o SaveLines(w, files, fileName, Tail(array))

\* I18n.prototype.save
proto_save(w) ==
  setLastTimeUpdated(_autoExport(_triggerChange(_resetUpdates(
    [w EXCEPT !._lastTimeUpdated = w.now,
              !.disk = [name \in DOMAIN w.disk |->
                          SaveLines(w, _findI18nFiles(w), name, w.keys)]]))))

save(w) == Wrapped(w, "save", proto_save(w))

\* the callback _optimizeUpdates hands to _changeUpdates
optimizeFn(w, fullKey) ==
  IF /\ Has(w.original, fullKey)
     /\ Has(w.updated, fullKey)
     /\ safeValue(w.original[fullKey].comment) = safeValue(w.updated[fullKey].comment)
     /\ safeValue(w.original[fullKey].value) = safeValue(w.updated[fullKey].value)
     /\ (w.original[fullKey].approved = "true") = (w.updated[fullKey].approved = "true")
  THEN [w EXCEPT !.updates.before = Delete(w.updates.before, fullKey),
                 !.updates.after = Delete(w.updates.after, fullKey)]
  ELSE w

\* the callback revert() hands to _changeUpdates
revertFn(w, fullKey, fileName, key) ==
  IF \/ (Truthy(fileName) /\ fileName # ArrayAt(splitFK(fullKey), 0))
     \/ (Truthy(key) /\ key # ArrayAt(splitFK(fullKey), 1))
  THEN w
  ELSE [w EXCEPT
          !.updated = IF Has(w.original, fullKey)
                      THEN Put(w.updated, fullKey, w.original[fullKey])
                      ELSE Delete(w.updated, fullKey),
          !.updates.after = Delete(w.updates.after, fullKey),
          !.updates.before = Delete(w.updates.before, fullKey)]

\* fn(fullKey), fn being optimizeFn ("optimize") or revertFn ("revert")
ApplyFn(w, fullKey, fn, fileName, key) ==
  IF fn = "optimize" THEN optimizeFn(w, fullKey)
  ELSE revertFn(w, fullKey, fileName, key)

\* updateKeys.forEach(fn)
RECURSIVE forEachUpdateKey(_, _, _, _, _)
forEachUpdateKey(w, updateKeys, fn, fileName, key) ==
  IF updateKeys = {} THEN w
  ELSE forEachUpdateKey(
         ApplyFn(w, CHOOSE k \in updateKeys : TRUE, fn, fileName, key),
         updateKeys \ {CHOOSE k \in updateKeys : TRUE}, fn, fileName, key)

\* this.state.updates.length = optimizedKeys.size
SetLength(w) == [w EXCEPT !.updates.length = Cardinality(_updateKeys(w))]

\* _changeUpdates after updateKeys.forEach(fn); size is updateKeys.size
ChangedUpdates(w, size) ==
  IF size > 0 /\ Cardinality(_updateKeys(w)) = 0
  THEN save(SetLength(w))
  ELSE SetLength(w)

_changeUpdates(w, fn, fileName, key) ==
  IF Thrown(w) THEN w
  ELSE IF Cardinality(_updateKeys(w)) = 0 THEN w
  ELSE ChangedUpdates(forEachUpdateKey(w, _updateKeys(w), fn, fileName, key),
                      Cardinality(_updateKeys(w)))

_optimizeUpdates(w) == _changeUpdates(w, "optimize", Undef, Undef)

\* config.appendLine(path, line)
appendLine(w, fileName, line) ==
  IF Thrown(w) THEN w
  ELSE [w EXCEPT !.disk = Put(w.disk, fileName,
                   (IF Has(w.disk, fileName) THEN w.disk[fileName] ELSE <<>>)
                   \o <<line>>)]

_appendUpdate(w, fileName, line) ==
  setLastTimeUpdated(
    appendLine(_optimizeUpdates(_updateState(w, fileName, <<UpdateLine>> \o line)),
               fileName, <<UpdateLine>> \o line))

----------------------------------------------------------------------------
(* load() *)

\* keys.add(key) on the insertion-ordered Set of load()
SetAdd(array, key) == IF Contains(array, key) THEN array ELSE Append(array, key)

\* the annotation with the line counted from 0
Annotate_zeroBased(e, fileName, lineNumber) ==
  IF stateError(e) THEN [e EXCEPT !.file = fileName, !.line = lineNumber - 1] ELSE e

\* the catch inside the loop: "[file:line] " before the message of a state error
Annotate(e, fileName, lineNumber) ==
  IF stateError(e) THEN [e EXCEPT !.file = fileName, !.line = lineNumber] ELSE e

\* The body of the while loop of load() for a line of the baseline.  s holds
\* the world, the Set `keys`, the two duplicate sets and the queue `updates`.
ReadParsed(s, fileName, lineNumber, parsedLine) ==
  IF parsedLine.err.code # "none"
  THEN [s EXCEPT !.w = Throw(s.w, Annotate(parsedLine.err, fileName, lineNumber))]
  ELSE IF parsedLine.key \in (IF parsedLine.type = CommentLine
                              THEN s.commentKeys ELSE s.valueKeys)
  THEN [s EXCEPT !.w = Throw(
          _resolveTranslation(s.w, FullKey(fileName, parsedLine.key), parsedLine, "original"),
          Annotate(DuplicateKeyError(<<parsedLine.type>> \o parsedLine.key),
                   fileName, lineNumber))]
  ELSE [s EXCEPT
          !.w = _resolveTranslation(s.w, FullKey(fileName, parsedLine.key),
                                    parsedLine, "original"),
          !.keys = SetAdd(s.keys, parsedLine.key),
          !.commentKeys = IF parsedLine.type = CommentLine
                          THEN @ \cup {parsedLine.key} ELSE @,
          !.valueKeys = IF parsedLine.type = CommentLine
                        THEN @ ELSE @ \cup {parsedLine.key}]

\* the while loop of load() over the lines of a file, from line lineNumber on;
\* reader.next() ends it at the end of the file and at an empty line
RECURSIVE readLines(_, _, _, _)
readLines(s, fileName, lines, lineNumber) ==
  IF Thrown(s.w) THEN s
  ELSE IF lineNumber > Len(lines) THEN s
  ELSE IF Len(lines[lineNumber]) = 0 THEN s
  ELSE IF CharAt(lines[lineNumber], 0) = UpdateLine
  THEN readLines([s EXCEPT !.updates = Append(s.updates, lines[lineNumber])],
                 fileName, lines, lineNumber + 1)
  ELSE readLines(ReadParsed(s, fileName, lineNumber, _parseLine(lines[lineNumber], 0)),
                 fileName, lines, lineNumber + 1)

\* for (const line of updates) this._updateState(file.name, line)
RECURSIVE replayUpdates(_, _, _)
replayUpdates(w, fileName, lines) ==
  IF Thrown(w) \/ Len(lines) = 0 THEN w
  ELSE replayUpdates(_updateState(w, fileName, Head(lines)), fileName, Tail(lines))

\* config.lineReader(file.path) and reader.close()
lineReader(w, fileName) == [w EXCEPT !.readers = @ \cup {fileName}]
close(w, fileName) == IF Thrown(w) THEN w ELSE [w EXCEPT !.readers = @ \ {fileName}]

\* the end of the loop body of a file: reader.close(), then the replay
ReplayFile(s, fileName) ==
  [w |-> replayUpdates(close(s.w, fileName), fileName, s.updates), keys |-> s.keys]

\* for (const file of this._findI18nFiles()) { ... }; r holds the world and `keys`
RECURSIVE loadFiles(_, _)
loadFiles(r, files) ==
  IF Thrown(r.w) \/ Len(files) = 0 THEN r
  ELSE loadFiles(
         ReplayFile(readLines([w |-> lineReader(r.w, Head(files)),
                               keys |-> r.keys, valueKeys |-> {},
                               commentKeys |-> {}, updates |-> <<>>],
                              Head(files), r.w.disk[Head(files)], 1),
                    Head(files)),
         Tail(files))

\* this.state.keys.array = Array.from(keys.values())
SetKeys(w, array) == IF Thrown(w) THEN w ELSE [w EXCEPT !.keys = array]

\* the end of the try block of load()
LoadTry(r) == SetKeys(_optimizeUpdates(r.w), r.keys)

\* catch and finally of load()
LoadCatch(w) ==
  IF Thrown(w) /\ stateError(w.exc)
  THEN [w EXCEPT !.error = w.exc, !.exc = NoError, !.loaded = TRUE]
  ELSE [w EXCEPT !.loaded = TRUE]

\* I18n.prototype.load
proto_load(w) ==
  _autoExport(_triggerChange(LoadCatch(LoadTry(
    loadFiles([w |-> _resetState(w), keys |-> <<>>], _findI18nFiles(w))))))

load(w) == Wrapped(w, "load", proto_load(w))

----------------------------------------------------------------------------
(* Edits *)

\* I18n.prototype.updateValue
proto_updateValue(w, fileName, key, value) ==
  IF _validateKey(key).code # "none" THEN Throw(w, _validateKey(key))
  ELSE _triggerChange(_appendUpdate(w, fileName,
         <<NotApprovedLine>> \o key \o <<KeyValueSeparator>> \o safeValue(value)))

updateValue(w, fileName, key, value) ==
  Wrapped(w, "updateValue", proto_updateValue(w, fileName, key, value))

\* I18n.prototype.updateApproved; approved is "true", "false" or "undefined"
proto_updateApproved(w, fileName, key, approved) ==
  IF _validateKey(key).code # "none" THEN Throw(w, _validateKey(key))
  ELSE _triggerChange(_appendUpdate(w, fileName,
         <<IF approved = "true" THEN ApprovedLine ELSE NotApprovedLine>>
         \o key \o <<KeyValueSeparator>>
         \o safeValue(IF Has(w.updated, FullKey(fileName, key))
                      THEN w.updated[FullKey(fileName, key)].value ELSE Undef)))

updateApproved(w, fileName, key, approved) ==
  Wrapped(w, "updateApproved", proto_updateApproved(w, fileName, key, approved))

\* I18n.prototype.updateComment
proto_updateComment(w, fileName, key, comment) ==
  IF _validateKey(key).code # "none" THEN Throw(w, _validateKey(key))
  ELSE _triggerChange(_appendUpdate(w, fileName,
         <<CommentLine>> \o key \o <<KeyValueSeparator>> \o safeValue(comment)))

updateComment(w, fileName, key, comment) ==
  Wrapped(w, "updateComment", proto_updateComment(w, fileName, key, comment))

\* I18n.prototype.updateTranslation
proto_updateTranslation(w, fileName, key, value, comment, approved) ==
  IF _validateKey(key).code # "none" THEN Throw(w, _validateKey(key))
  ELSE _triggerChange(
         _appendUpdate(
           _appendUpdate(w, fileName,
             <<CommentLine>> \o key \o <<KeyValueSeparator>> \o safeValue(comment)),
           fileName,
           <<IF approved = "true" THEN ApprovedLine ELSE NotApprovedLine>>
           \o key \o <<KeyValueSeparator>> \o safeValue(value)))

updateTranslation(w, fileName, key, value, comment, approved) ==
  Wrapped(w, "updateTranslation",
          proto_updateTranslation(w, fileName, key, value, comment, approved))

\* I18n.prototype.revert
proto_revert(w, fileName, key) == _changeUpdates(w, "revert", fileName, key)

revert(w, fileName, key) == Wrapped(w, "revert", proto_revert(w, fileName, key))

----------------------------------------------------------------------------
(* Structural operations *)

\* for (const file of files) this._appendUpdate(file.name, DeleteKeyLine + key)
RECURSIVE deleteKeyFiles(_, _, _)
deleteKeyFiles(w, files, key) ==
  IF Thrown(w) \/ Len(files) = 0 THEN w
  ELSE deleteKeyFiles(_appendUpdate(w, Head(files), <<DeleteKeyLine>> \o key),
                      Tail(files), key)

\* I18n.prototype.deleteKey
proto_deleteKey(w, key) ==
  IF _validateKey(key).code # "none" THEN Throw(w, _validateKey(key))
  ELSE IF ~Contains(w.keys, key) THEN w
  ELSE _triggerChange(deleteKeyFiles(keysRemove(w, key),
                                     _findI18nFiles(w), key))

deleteKey(w, key) == Wrapped(w, "deleteKey", proto_deleteKey(w, key))

\* The loop of addKey calls this.updateValue(file.name, key): the installed
\* function takes one argument, options, here the string file.name, whose
\* properties fileName, key and value are undefined.
RECURSIVE addKeyFiles(_, _)
addKeyFiles(w, files) ==
  IF Thrown(w) \/ Len(files) = 0 THEN w
  ELSE addKeyFiles(updateValue(w, Undef, Undef, Undef), Tail(files))

\* addKey inserting the key before it looks for the locale files
proto_addKey_insertFirst(w, key) ==
  IF _validateKey(key).code # "none" THEN Throw(w, _validateKey(key))
  ELSE IF sortedIndexOf(w.keys, key) = -1 THEN Throw(w, KeyExistError(key))
  ELSE IF Len(_findI18nFiles(w)) = 0
  THEN Throw(keysInsert(w, key),
             NoI18nFilesError)
  ELSE addKeyFiles(keysInsert(w, key),
                   _findI18nFiles(w))

\* I18n.prototype.addKey
proto_addKey(w, key) ==
  IF _validateKey(key).code # "none" THEN Throw(w, _validateKey(key))
  ELSE IF sortedIndexOf(w.keys, key) = -1 THEN Throw(w, KeyExistError(key))
  ELSE IF Len(_findI18nFiles(w)) = 0 THEN Throw(w, NoI18nFilesError)
  ELSE addKeyFiles(keysInsert(w, key),
                   _findI18nFiles(w))

addKey(w, key) == Wrapped(w, "addKey", proto_addKey(w, key))

\* Object.assign({ fileName, key: toKey }, this.state.updated[fullKey]): key,
\* value, comment and approved are those of the entry of fromKey when there
\* is one
CopyOptions(w, fileName, fromKey, toKey) ==
  IF Has(w.updated, FullKey(fileName, fromKey))
  THEN w.updated[FullKey(fileName, fromKey)]
  ELSE NewTranslation(toKey)

\* the loop of copyKey
RECURSIVE copyKeyFiles(_, _, _, _)
copyKeyFiles(w, files, fromKey, toKey) ==
  IF Thrown(w) \/ Len(files) = 0 THEN w
  ELSE copyKeyFiles(
         updateTranslation(w, Head(files),
                           CopyOptions(w, Head(files), fromKey, toKey).key,
                           CopyOptions(w, Head(files), fromKey, toKey).value,
                           CopyOptions(w, Head(files), fromKey, toKey).comment,
                           CopyOptions(w, Head(files), fromKey, toKey).approved),
         Tail(files), fromKey, toKey)

\* I18n.prototype.copyKey
proto_copyKey(w, fromKey, toKey) ==
  IF fromKey = toKey THEN w
  ELSE IF _validateKey(fromKey).code # "none" THEN Throw(w, _validateKey(fromKey))
  ELSE IF _validateKey(toKey).code # "none" THEN Throw(w, _validateKey(toKey))
  ELSE IF Len(_findI18nFiles(w)) = 0 THEN Throw(w, NoI18nFilesError)
  ELSE IF indexOf(w.keys, fromKey) = -1 THEN Throw(w, KeyNotExistError(fromKey))
  ELSE IF sortedIndexOf(w.keys, toKey) = -1 THEN Throw(w, KeyExistError(toKey))
  ELSE copyKeyFiles(keysInsert(w, toKey),
                    _findI18nFiles(w), fromKey, toKey)

copyKey(w, fromKey, toKey) == Wrapped(w, "copyKey", proto_copyKey(w, fromKey, toKey))

\* I18n.prototype.renameKey.  It ends with this.deleteKey({ fromKey }): an
\* options object whose property key is undefined.
proto_renameKey(w, fromKey, toKey) ==
  IF fromKey = toKey THEN w
  ELSE IF _validateKey(fromKey).code # "none" THEN Throw(w, _validateKey(fromKey))
  ELSE IF _validateKey(toKey).code # "none" THEN Throw(w, _validateKey(toKey))
  ELSE deleteKey(copyKey(w, fromKey, toKey), Undef)

renameKey(w, fromKey, toKey) ==
  Wrapped(w, "renameKey", proto_renameKey(w, fromKey, toKey))

\* config.createFile(path) and config.deleteFile(path)
createFile(w, fileName) == [w EXCEPT !.disk = Put(w.disk, fileName, <<>>)]
removeFile(w, fileName) == [w EXCEPT !.disk = Delete(w.disk, fileName)]

\* the default '' of the parameter fileName
FileNameOrEmpty(fileName) == IF fileName = Undef THEN <<>> ELSE fileName

\* addFile creating the file before it looks at the pending log
proto_addFile_createFirst(w, fileName) ==
  IF Len(FileNameOrEmpty(fileName)) <= 0 THEN Throw(w, InvalidFileError)
  ELSE IF Has(w.disk, FileNameOrEmpty(fileName)) THEN Throw(w, InvalidFileError)
  ELSE IF w.updates.length # 0
  THEN Throw(createFile(w, FileNameOrEmpty(fileName)), UnappliedChangesError)
  ELSE save(createFile(w, FileNameOrEmpty(fileName)))

\* I18n.prototype.addFile
proto_addFile(w, fileName) ==
  IF w.updates.length # 0 THEN Throw(w, UnappliedChangesError)
  ELSE IF Len(FileNameOrEmpty(fileName)) <= 0 THEN Throw(w, InvalidFileError)
  ELSE IF Has(w.disk, FileNameOrEmpty(fileName)) THEN Throw(w, InvalidFileError)
  ELSE save(createFile(w, FileNameOrEmpty(fileName)))

addFile(w, fileName) == Wrapped(w, "addFile", proto_addFile(w, fileName))

\* I18n.prototype.deleteFile
proto_deleteFile(w, fileName) ==
  IF w.updates.length # 0 THEN Throw(w, UnappliedChangesError)
  ELSE IF ~Has(w.disk, FileNameOrEmpty(fileName)) THEN w
  ELSE save(removeFile(w, FileNameOrEmpty(fileName)))

deleteFile(w, fileName) == Wrapped(w, "deleteFile", proto_deleteFile(w, fileName))

----------------------------------------------------------------------------
(* The orchestration shell: the snapshot for the listener, the export     *)
(* pipeline, connect() with its watch callback, and the deferred halves of *)
(* the throttles.  The directory holds no export module (_findI18nJsFile   *)
(* finds nothing), so export() works with the configured exporter or not   *)
(* at all.                                                                 *)

\* I18n.prototype._cloneState
_cloneState(w) ==
  [keys |-> w.keys, original |-> w.original, updated |-> w.updated,
   updates |-> w.updates, error |-> w.error, loaded |-> w.loaded,
   files |-> _findI18nFiles(w), changed |-> w.keysChanged]

\* what a hook of the exporter throws, and the error _export wraps it in
HookError == Error("Hook", <<>>)
ExportError(e) == [e EXCEPT !.code = "Export", !.cause = e.code]

HookCall(hook, fileName, key) == [hook |-> hook, file |-> fileName, key |-> key]

\* the inner loop without its test of the working entry
RECURSIVE ExportKeys_everyKey(_, _, _)
ExportKeys_everyKey(w, fileName, array) ==
  IF Len(array) = 0 THEN <<>>
  ELSE << HookCall("write", fileName, Head(array)) >>
       \o ExportKeys_everyKey(w, fileName, Tail(array))

\* the inner loop of _export: write() for the keys of the registry that have
\* a working entry in the file
RECURSIVE ExportKeys(_, _, _)
ExportKeys(w, fileName, array) ==
  IF Len(array) = 0 THEN <<>>
  ELSE (IF Has(w.updated, FullKey(fileName, Head(array)))
        THEN << HookCall("write", fileName, Head(array)) >>
        ELSE <<>>)
       \o ExportKeys(w, fileName, Tail(array))

\* the outer loop of _export: open, the writes, close, file after file
RECURSIVE ExportFiles(_, _)
ExportFiles(w, files) ==
  IF Len(files) = 0 THEN <<>>
  ELSE << HookCall("open", Head(files), <<>>) >>
       \o ExportKeys(w, Head(files), w.keys)
       \o << HookCall("close", Head(files), <<>>) >>
       \o ExportFiles(w, Tail(files))

\* the calls _export makes when no hook throws
HookCalls(w) ==
  (IF w.exporter.validate THEN << HookCall("validate", <<>>, <<>>) >> ELSE <<>>)
  \o ExportFiles(w, _findI18nFiles(w))

\* the calls made when the hook `throws` throws: up to its first call
RECURSIVE UntilThrow(_, _)
UntilThrow(hookCalls, throws) ==
  IF Len(hookCalls) = 0 THEN <<>>
  ELSE IF Head(hookCalls).hook = throws THEN << Head(hookCalls) >>
  ELSE << Head(hookCalls) >> \o UntilThrow(Tail(hookCalls), throws)

\* try and catch of _export: the calls made, and ExportError when the last
\* of them has thrown
Exported(w, made, throws) ==
  IF Len(made) > 0 /\ made[Len(made)].hook = throws
  THEN Throw([w EXCEPT !.hooks = made], ExportError(HookError))
  ELSE [w EXCEPT !.hooks = made]

\* I18n.prototype._export, with an exporter whose hook `throws` throws
_export(w, throws) ==
  IF Thrown(w) THEN w
  ELSE Exported(w, UntilThrow(HookCalls(w), throws), throws)

\* export() from its test of state.error on
ExportLoaded(w, throws) ==
  IF Thrown(w) THEN w
  ELSE IF w.error.code # "none" THEN Throw(w, NotResolvedError(w.error))
  ELSE _export(w, throws)

\* I18n.prototype.export
proto_export(w, type, throws) ==
  IF ~w.exporter.configured THEN w
  ELSE IF type = "auto" /\ ~w.loaded THEN Throw(w, NotLoadedError)
  ELSE ExportLoaded(IF w.loaded THEN w ELSE load(w), throws)

export(w, type, throws) == Wrapped(w, "export", proto_export(w, type, throws))

\* connect() from this._onChange = onChange on
Attach(w) ==
  IF Thrown(w) THEN w
  ELSE [w EXCEPT !._onChange = TRUE, !.waitingLoad = FALSE]

\* I18n.prototype.connect, on a directory that exists
proto_connect(w) == Attach(IF w.loaded THEN w ELSE load(w))

connect(w) == Wrapped(w, "connect", proto_connect(w))

\* the file names the watcher reports: a locale file is one FileNameRegExp
\* matches, the export module is the one named I18nJs
I18nJs == <<"j">>
OtherFile == <<"r">>
isI18nFile(fileName) == \E i \in 1..Len(FileOrder) : FileOrder[i] = fileName
isI18nJsFile(fileName) == fileName = I18nJs

ignoreChangesTimeoutMs == 1000

\* the function debounceAction$ returns, for load (connect, delay 300)
throttledLoad(w) ==
  IF w.waitingLoad THEN w
  ELSE [w EXCEPT !.waitingLoad = TRUE, !.timerLoad = @ + 1,
                 !.dueLoad = w.now + 300]

\* the callback without its test of the time of the last write
watchCallback_noTimeTest(w, fileName) ==
  IF isI18nJsFile(fileName)
  THEN _autoExport([w EXCEPT !._exportChangeIndex = @ + 1])
  ELSE IF isI18nFile(fileName) THEN throttledLoad(w)
  ELSE w

\* the callback connect() hands to fs.watch
watchCallback(w, fileName) ==
  IF isI18nJsFile(fileName)
  THEN _autoExport([w EXCEPT !._exportChangeIndex = @ + 1])
  ELSE IF /\ isI18nFile(fileName)
          /\ w._lastTimeUpdated + ignoreChangesTimeoutMs < w.now
  THEN throttledLoad(w)
  ELSE w

\* what is left of a callback's exception: the catch of debounceAction$ calls
\* errorHandler, which neither initialize() nor connect() passes
TypeError(e) == [e EXCEPT !.code = "TypeError", !.cause = e.code]

\* what a listener throws
ListenerError == Error("Listener", <<>>)

\* I18n.prototype._triggerChange: the listener, when there is one, gets the
\* snapshot, and returns or throws; the finally block runs either way
proto_triggerChange(w, throws) ==
  [w EXCEPT !.notified = IF w._onChange THEN Append(@, _cloneState(w)) ELSE @,
            !.keysUpdated = "false",
            !.exc = IF w._onChange /\ throws THEN ListenerError ELSE @]

\* the rest of the timeout function: no errorHandler was handed to
\* debounceAction$, so that the catch block itself throws, before `waiting`
\* is reset
ChangeDone(w) ==
  IF Thrown(w)
  THEN [w EXCEPT !.exc = TypeError(w.exc), !.timerChange = @ - 1]
  ELSE [w EXCEPT !.waitingChange = FALSE, !.timerChange = @ - 1]

\* the function debounceAction$ hands to setTimeout, for _triggerChange
timeoutChange(w, throws) == ChangeDone(proto_triggerChange(w, throws))

\* I18n.prototype._autoExport
proto_autoExport(w, throws) ==
  IF w.autoExport
  THEN setLastTimeUpdated(
         export([w EXCEPT !._lastTimeUpdated = w.now], "auto", throws))
  ELSE w

\* the end of the function handed to setTimeout: waiting = false is reached
\* when the callback has not thrown
ExportDone(w) ==
  IF Thrown(w)
  THEN [w EXCEPT !.exc = TypeError(w.exc), !.timerExport = @ - 1, !.dueExport = 0]
  ELSE [w EXCEPT !.waitingExport = FALSE, !.timerExport = @ - 1, !.dueExport = 0]

\* the function debounceAction$ hands to setTimeout, for _autoExport
timeoutExport(w, throws) == ExportDone(proto_autoExport(w, throws))

LoadDone(w) ==
  IF Thrown(w)
  THEN [w EXCEPT !.exc = TypeError(w.exc), !.timerLoad = @ - 1, !.dueLoad = 0]
  ELSE [w EXCEPT !.waitingLoad = FALSE, !.timerLoad = @ - 1, !.dueLoad = 0]

\* the function debounceAction$ hands to setTimeout, for load
timeoutLoad(w) == LoadDone(load(w))

----------------------------------------------------------------------------
(* Inputs *)

KeyA == <<"a">>
KeyB == <<"b">>
FileE == <<"e">>
FileF == <<"f">>

\* keys a caller passes: two valid ones, one holding the separator, the empty one
ValidKeyArgs == {KeyA, KeyB}
KeyArgs == ValidKeyArgs \cup {<<"=">>, <<>>}
ValueArgs == {<<"x">>, <<"y">>}
CommentArgs == {<<"c">>}
ApprovedArgs == {"true", "false"}
TranslationArgs ==
  {[value |-> <<"x">>, comment |-> <<"c">>, approved |-> "true"],
   [value |-> <<"y">>, comment |-> Undef, approved |-> "undefined"]}
FileArgs == {FileOrder[i] : i \in 1..Len(FileOrder)}

ValueLine(marker, key, payload) == <<marker>> \o key \o <<KeyValueSeparator>> \o payload
Pending(line) == <<UpdateLine>> \o line

\* the directories the engine is started on, and that an editor of the files
\* can leave behind
DiskNone == EmptyMap
DiskHello == (FileE :> << ValueLine("+", KeyA, <<"x">>) >>)
          @@ (FileF :> << ValueLine("+", KeyA, <<"x">>) >>)
DiskComment == (FileE :> << ValueLine("#", KeyA, <<"c">>), ValueLine("-", KeyA, <<"x">>) >>)
DiskUnsorted == (FileE :> << ValueLine("+", KeyB, <<"y">>), ValueLine("-", KeyA, <<"x">>) >>)
DiskDuplicate == (FileE :> << ValueLine("+", KeyA, <<"x">>), ValueLine("+", KeyB, <<"x">>),
                              ValueLine("-", KeyB, <<"y">>), Pending(<<"!", "a">>) >>)
              @@ (FileF :> << ValueLine("+", KeyA, <<"x">>) >>)
DiskDuplicateComment == (FileE :> << ValueLine("+", KeyA, <<"x">>) >>)
              @@ (FileF :> << ValueLine("#", KeyA, <<"c">>), ValueLine("+", KeyA, <<"x">>),
                              ValueLine("#", KeyA, <<"c">>) >>)
DiskMalformed == (FileE :> << <<"a", "=", "x">> >>)
              @@ (FileF :> << ValueLine("+", KeyA, <<"x">>), ValueLine("+", KeyA, <<"y">>) >>)
DiskPending == (FileE :> << ValueLine("+", KeyA, <<"x">>),
                            Pending(ValueLine("-", KeyA, <<"y">>)) >>)
            @@ (FileF :> << ValueLine("+", KeyA, <<"x">>) >>)

\* a key in one file only
DiskAsymmetric == (FileE :> << ValueLine("+", KeyA, <<"x">>) >>)
               @@ (FileF :> << ValueLine("+", KeyB, <<"y">>) >>)
\* two pending lines for a key, a pending line for a key the baseline lacks,
\* and a malformed line in the next file
DiskReplayError == (FileE :> << ValueLine("+", KeyA, <<"x">>),
                                Pending(ValueLine("-", KeyA, <<"y">>)),
                                Pending(ValueLine("+", KeyA, <<"y">>)),
                                Pending(ValueLine("-", KeyB, <<"y">>)) >>)
                @@ (FileF :> << <<"a", "=", "x">> >>)
\* a pending line for a key the baseline lacks
DiskPendingNewKey == (FileE :> << ValueLine("+", KeyA, <<"x">>),
                                  Pending(ValueLine("-", KeyB, <<"y">>)) >>)

InitialDisks == {DiskNone, DiskHello, DiskComment, DiskUnsorted, DiskDuplicate,
                 DiskDuplicateComment, DiskMalformed, DiskPending,
                 DiskAsymmetric, DiskReplayError, DiskPendingNewKey}

\* what an edit by hand leaves behind
EditedDisks == {DiskHello, DiskDuplicate}

IsPending(line) == CharAt(line, 0) = UpdateLine
PendingLines(lines) == SelectSeq(lines, IsPending)

----------------------------------------------------------------------------
(* The codec of payloads on its own: a payload is encoded for a line and    *)
(* decoded again.                                                          *)

\* this._config.exporter: none, or the hooks open, write and close, with or
\* without validate
NoExporter == [configured |-> FALSE, validate |-> FALSE]
Exporters == {[configured |-> TRUE, validate |-> v] : v \in BOOLEAN}

\* the hook of the exporter that throws when it is called
Throws == {"none", "validate", "open", "write", "close"}

NoCodec == [stage |-> "none", plain |-> <<>>, encoded |-> <<>>, decoded |-> <<>>]

\* the characters of a payload: a letter, a blank, a line break, the placeholder
PayloadChars == {"x", " ", NewLine, NewLineSymbol}
Payloads == UNION {[1..n -> PayloadChars] : n \in 0..MaxLen}

----------------------------------------------------------------------------
(* The state machine *)

NoCall == [op |-> "new", exc |-> "none", cause |-> "none"]

\* the call that made the step: its name, the class of the error it threw and
\* of the error that one wraps
Called(op, w) == [op |-> op, exc |-> w.exc.code, cause |-> w.exc.cause]

\* the call op has left the world w
Becomes(op, w) ==
  /\ keys' = w.keys
  /\ original' = w.original
  /\ updated' = w.updated
  /\ updates' = w.updates
  /\ error' = w.error
  /\ loaded' = w.loaded
  /\ disk' = w.disk
  /\ waitingChange' = w.waitingChange
  /\ timerChange' = w.timerChange
  /\ waitingExport' = w.waitingExport
  /\ timerExport' = w.timerExport
  /\ dueExport' = w.dueExport
  /\ waitingLoad' = w.waitingLoad
  /\ timerLoad' = w.timerLoad
  /\ dueLoad' = w.dueLoad
  /\ now' = w.now
  /\ _lastTimeUpdated' = w._lastTimeUpdated
  /\ _exportChangeIndex' = w._exportChangeIndex
  /\ _onChange' = w._onChange
  /\ notified' = w.notified
  /\ autoExport' = w.autoExport
  /\ exporter' = w.exporter
  /\ hooks' = w.hooks
  /\ keysChanged' = w.keysChanged
  /\ keysUpdated' = w.keysUpdated
  /\ readers' = w.readers
  /\ codec' = codec
  /\ call' = Called(op, w)

\* a step of the state machine: the call op has left the world w
Step(op, w) ==
  /\ calls < MaxCalls
  /\ Becomes(op, w)
  /\ calls' = calls + 1

Init ==
  /\ keys = <<>>
  /\ original = EmptyMap
  /\ updated = EmptyMap
  /\ updates = [length |-> 0, before |-> EmptyMap, after |-> EmptyMap]
  /\ error = NoError
  /\ loaded = FALSE
  /\ disk \in InitialDisks
  /\ waitingChange = FALSE
  /\ timerChange = 0
  /\ waitingExport = FALSE
  /\ timerExport = 0
  /\ dueExport = 0
  /\ waitingLoad = FALSE
  /\ timerLoad = 0
  /\ dueLoad = 0
  /\ now = 2000
  /\ _lastTimeUpdated = 0
  /\ _exportChangeIndex = 0
  /\ _onChange = FALSE
  /\ notified = <<>>
  /\ autoExport = FALSE
  /\ exporter = NoExporter
  /\ hooks = <<>>
  /\ keysChanged = FALSE
  /\ keysUpdated = "undefined"
  /\ readers = {}
  /\ codec = NoCodec
  /\ call = NoCall
  /\ calls = 0

Load == Step("load", load(World))

Save == Step("save", save(World))

Revert ==
  \E fileName \in FileArgs \cup {Undef}, key \in ValidKeyArgs \cup {Undef} :
    Step("revert", revert(World, fileName, key))

AddFile ==
  \E fileName \in FileArgs \cup {Undef} :
    Step("addFile", addFile(World, fileName))

DeleteFile ==
  \E fileName \in FileArgs \cup {Undef} :
    Step("deleteFile", deleteFile(World, fileName))

AddKey ==
  \E key \in KeyArgs :
    Step("addKey", addKey(World, key))

CopyKey ==
  \E fromKey \in KeyArgs, toKey \in KeyArgs :
    Step("copyKey", copyKey(World, fromKey, toKey))

RenameKey ==
  \E fromKey \in KeyArgs, toKey \in KeyArgs :
    Step("renameKey", renameKey(World, fromKey, toKey))

DeleteKey ==
  \E key \in KeyArgs :
    Step("deleteKey", deleteKey(World, key))

UpdateValue ==
  \E fileName \in DOMAIN disk, key \in KeyArgs, value \in ValueArgs :
    Step("updateValue", updateValue(World, fileName, key, value))

UpdateApproved ==
  \E fileName \in DOMAIN disk, key \in KeyArgs, approved \in ApprovedArgs :
    Step("updateApproved", updateApproved(World, fileName, key, approved))

UpdateComment ==
  \E fileName \in DOMAIN disk, key \in KeyArgs, comment \in CommentArgs :
    Step("updateComment", updateComment(World, fileName, key, comment))

UpdateTranslation ==
  \E fileName \in DOMAIN disk, key \in KeyArgs, t \in TranslationArgs :
    Step("updateTranslation",
         updateTranslation(World, fileName, key, t.value, t.comment, t.approved))

\* the timer of _triggerChange fires
FireChange == timerChange > 0 /\ Step("timeoutChange", timeoutChange(World, FALSE))

\* the timer of _autoExport fires
FireExport == timerExport > 0 /\ Step("timeoutExport", timeoutExport(World, "none"))

\* someone edits the files of the directory by hand
EditFiles ==
  \E files \in EditedDisks \ {disk} :
    Step("editFiles", [World EXCEPT !.disk = files])

Next ==
  \/ Load \/ Save \/ Revert \/ AddFile \/ DeleteFile
  \/ AddKey \/ CopyKey \/ RenameKey \/ DeleteKey
  \/ UpdateValue \/ UpdateApproved \/ UpdateComment \/ UpdateTranslation
  \/ FireChange \/ FireExport \/ EditFiles

Spec == Init /\ [][Next]_vars

----------------------------------------------------------------------------
(* The codec alone *)

Engine == <<keys, original, updated, updates, error, loaded, disk,
            waitingChange, timerChange, waitingExport, timerExport, dueExport,
            waitingLoad, timerLoad, dueLoad, now, _lastTimeUpdated,
            _exportChangeIndex, _onChange, notified, autoExport, exporter,
            hooks, keysChanged, keysUpdated, readers, call, calls>>

CodecInit ==
  /\ keys = <<>>
  /\ original = EmptyMap
  /\ updated = EmptyMap
  /\ updates = [length |-> 0, before |-> EmptyMap, after |-> EmptyMap]
  /\ error = NoError
  /\ loaded = FALSE
  /\ disk = DiskNone
  /\ waitingChange = FALSE
  /\ timerChange = 0
  /\ waitingExport = FALSE
  /\ timerExport = 0
  /\ dueExport = 0
  /\ waitingLoad = FALSE
  /\ timerLoad = 0
  /\ dueLoad = 0
  /\ now = 2000
  /\ _lastTimeUpdated = 0
  /\ _exportChangeIndex = 0
  /\ _onChange = FALSE
  /\ notified = <<>>
  /\ autoExport = FALSE
  /\ exporter = NoExporter
  /\ hooks = <<>>
  /\ keysChanged = FALSE
  /\ keysUpdated = "undefined"
  /\ readers = {}
  /\ call = NoCall
  /\ calls = 0
  /\ codec \in {[NoCodec EXCEPT !.stage = "plain", !.plain = value] : value \in Payloads}

\* safeValue$(value)
Encode ==
  /\ codec.stage = "plain"
  /\ codec' = [codec EXCEPT !.stage = "encoded", !.encoded = safeValue(codec.plain)]
  /\ UNCHANGED Engine

\* unsafeValue$(payload)
Decode ==
  /\ codec.stage = "encoded"
  /\ codec' = [codec EXCEPT !.stage = "decoded", !.decoded = unsafeValue(codec.encoded)]
  /\ UNCHANGED Engine

CodecNext == Encode \/ Decode

CodecSpec == CodecInit /\ [][CodecNext]_vars

----------------------------------------------------------------------------
(* The connected engine: constructed with autoExport and an exporter,      *)
(* connect() attaches the listener and the watch callback, and the clock   *)
(* runs.  A timer fires when it is due, before the clock goes on; calls    *)
(* and watch events come at any time.                                      *)

ShellDisks == {DiskAsymmetric, DiskUnsorted}

ShellInit ==
  /\ keys = <<>>
  /\ original = EmptyMap
  /\ updated = EmptyMap
  /\ updates = [length |-> 0, before |-> EmptyMap, after |-> EmptyMap]
  /\ error = NoError
  /\ loaded = FALSE
  /\ disk \in ShellDisks
  /\ waitingChange = FALSE
  /\ timerChange = 0
  /\ waitingExport = FALSE
  /\ timerExport = 0
  /\ dueExport = 0
  /\ waitingLoad = FALSE
  /\ timerLoad = 0
  /\ dueLoad = 0
  /\ now = 2000
  /\ _lastTimeUpdated = 0
  /\ _exportChangeIndex = 0
  /\ _onChange = FALSE
  /\ notified = <<>>
  /\ autoExport = TRUE
  /\ exporter \in Exporters
  /\ hooks = <<>>
  /\ keysChanged = FALSE
  /\ keysUpdated = "undefined"
  /\ readers = {}
  /\ codec = NoCodec
  /\ call = NoCall
  /\ calls = 0

\* a timer fires
Fired(op, w) ==
  /\ Becomes(op, w)
  /\ calls' = calls

Connect == ~_onChange /\ Step("connect", connect(World))

\* export(), whatever the hooks of the exporter do
Export ==
  \E throws \in Throws :
    Step("export", export(World, "manual", throws))

\* the watcher reports a change of a locale file
WatchLocaleFile ==
  _onChange /\ Step("watchLocaleFile", watchCallback(World, FileOrder[1]))

\* the watcher reports a change of the export module
WatchExportModule ==
  _onChange /\ Step("watchExportModule", watchCallback(World, I18nJs))

\* the watcher reports a change of another file
WatchOtherFile ==
  _onChange /\ Step("watchOtherFile", watchCallback(World, OtherFile))

\* a value is set while the clock runs
Edit == Step("updateValue", updateValue(World, FileOrder[1], KeyA, <<"y">>))

\* a timer is due: setTimeout's time has passed
DueChange == timerChange > 0
DueExport == timerExport > 0 /\ now >= dueExport
DueLoad == timerLoad > 0 /\ now >= dueLoad

Notify == DueChange /\ Fired("timeoutChange", timeoutChange(World, FALSE))

\* the timer of _triggerChange fires, and the listener throws
NotifyThrows ==
  DueChange /\ _onChange /\ Fired("timeoutChange", timeoutChange(World, TRUE))

AutoExport ==
  /\ DueExport
  /\ \E throws \in {"none", "write"} :
       Fired("timeoutExport", timeoutExport(World, throws))

Reload == DueLoad /\ Fired("timeoutLoad", timeoutLoad(World))

\* 100 ms pass
Tick ==
  /\ now < MaxTime
  /\ ~DueChange /\ ~DueExport /\ ~DueLoad
  /\ now' = now + 100
  /\ UNCHANGED <<keys, original, updated, updates, error, loaded, disk,
                 waitingChange, timerChange, waitingExport, timerExport,
                 dueExport, waitingLoad, timerLoad, dueLoad, _lastTimeUpdated,
                 _exportChangeIndex, _onChange, notified, autoExport, exporter,
                 hooks, keysChanged, keysUpdated, readers, codec, call,
                 calls>>

\* the calls of one instant: the clock stands still, and of the timers only
\* those of delay 0 fire
ConnectedNext ==
  \/ Connect \/ Export \/ Notify \/ NotifyThrows
  \/ AddKey \/ DeleteKey \/ UpdateValue \/ Save

ConnectedSpec == ShellInit /\ [][ConnectedNext]_vars

\* the clock runs
ClockNext ==
  \/ Connect \/ Edit
  \/ WatchLocaleFile \/ WatchExportModule \/ WatchOtherFile
  \/ Notify \/ AutoExport \/ Reload \/ Tick

ClockSpec == ShellInit /\ [][ClockNext]_vars

----------------------------------------------------------------------------
(* Properties.  A property about a call is stated over every state the     *)
(* engine reaches: it quantifies over the arguments and looks at the world *)
(* the call would leave.                                                   *)

\* the gate has let a call through: loaded, and no captured error
Ready == loaded /\ error.code = "none"

LogEmpty(w) ==
  w.updates.length = 0 /\ DOMAIN w.updates.before = {} /\ DOMAIN w.updates.after = {}

\* no update-prefixed line in any locale file
NoPendingLine(w) == \A name \in DOMAIN w.disk : PendingLines(w.disk[name]) = <<>>

\* the worlds the edit operations leave, over their arguments
EditResults(w, fileNames) ==
  {updateValue(w, fileName, key, value) :
     fileName \in fileNames, key \in KeyArgs, value \in ValueArgs}
  \cup {updateApproved(w, fileName, key, approved) :
     fileName \in fileNames, key \in KeyArgs, approved \in ApprovedArgs}
  \cup {updateComment(w, fileName, key, comment) :
     fileName \in fileNames, key \in KeyArgs, comment \in CommentArgs}
  \cup {updateTranslation(w, fileName, key, t.value, t.comment, t.approved) :
     fileName \in fileNames, key \in KeyArgs, t \in TranslationArgs}

\* the worlds the operations behind the gate leave, over their arguments
GatedResults(w) ==
  {save(w)}
  \cup {revert(w, fileName, key) :
     fileName \in FileArgs \cup {Undef}, key \in ValidKeyArgs \cup {Undef}}
  \cup {addFile(w, fileName) : fileName \in FileArgs \cup {Undef}}
  \cup {deleteFile(w, fileName) : fileName \in FileArgs \cup {Undef}}
  \cup {addKey(w, key) : key \in KeyArgs}
  \cup {copyKey(w, fromKey, toKey) : fromKey \in KeyArgs, toKey \in KeyArgs}
  \cup {renameKey(w, fromKey, toKey) : fromKey \in KeyArgs, toKey \in KeyArgs}
  \cup {deleteKey(w, key) : key \in KeyArgs}
  \cup EditResults(w, FileArgs)

GatedOps == {"save", "revert", "addFile", "deleteFile", "addKey", "copyKey",
             "renameKey", "deleteKey", "updateValue", "updateApproved",
             "updateComment", "updateTranslation"}

\* C1: every public operation other than load, connect and export throws
\* NotLoaded while state.loaded is false, and NotResolved carrying state.error
\* while an error is captured; the test comes before the body of the
\* operation, so the call leaves keys, original, updated, updates and every
\* file as they were.
GateRejects ==
  /\ ~loaded =>
       \A r \in GatedResults(World) : r = Throw(World, NotLoadedError)
  /\ (loaded /\ error.code # "none") =>
       \A r \in GatedResults(World) :
         /\ r = Throw(World, NotResolvedError(error))
         /\ r.exc.cause = error.code
         /\ r.exc.file = error.file /\ r.exc.line = error.line
         /\ r.exc.detail = error.detail

\* a gated call has been rejected because of the error load() captured
GateRejectsReached ==
  /\ call.op \in GatedOps
  /\ call.exc = "NotResolved"
  /\ call.cause = error.code
  /\ loaded /\ error.code # "none"

----------------------------------------------------------------------------
(* What the scan of load() meets in a file, read off the lines themselves *)

ParsesAt(line, typeIndex) == _parseLine(line, typeIndex).err.code = "none"

\* two lines of the baseline for the same key, both comments or both values
SameSlot(first, second) ==
  /\ _parseLine(first, 0).key = _parseLine(second, 0).key
  /\ (_parseLine(first, 0).type = CommentLine) = (_parseLine(second, 0).type = CommentLine)

\* line n of the file is the second occurrence of its key in the baseline
SecondOccurrence(lines, n) ==
  /\ ~IsPending(lines[n]) /\ ParsesAt(lines[n], 0)
  /\ \E m \in 1..(n - 1) :
       ~IsPending(lines[m]) /\ ParsesAt(lines[m], 0) /\ SameSlot(lines[m], lines[n])

\* nothing ends the scan of the file before line n
ScanReaches(lines, n) ==
  \A m \in 1..(n - 1) :
    /\ Len(lines[m]) > 0
    /\ IsPending(lines[m]) \/ (ParsesAt(lines[m], 0) /\ ~SecondOccurrence(lines, m))

\* the whole file is read and its update lines are replayed without an error
FileClean(lines) ==
  /\ ScanReaches(lines, Len(lines) + 1)
  /\ \A m \in 1..Len(lines) :
       IsPending(lines[m]) => ParsesAt(lines[m], 1) /\ IndexOf(lines[m], NewLine) = -1

FilePosition(name) == CHOOSE i \in 1..Len(FileOrder) : FileOrder[i] = name

\* load() gets as far as line n of the file, the second occurrence of a key
DuplicateMet(files, fileName, n) ==
  /\ SecondOccurrence(files[fileName], n)
  /\ ScanReaches(files[fileName], n)
  /\ \A other \in DOMAIN files :
       FilePosition(other) < FilePosition(fileName) => FileClean(files[other])

\* the error load() captures for the second occurrence at line n of the file
DuplicateAt(fileName, line, n) ==
  [DuplicateKeyError(<<_parseLine(line, 0).type>> \o _parseLine(line, 0).key)
     EXCEPT !.file = fileName, !.line = n]

\* C2: when load() meets in the baseline of a locale file a second value line
\* (or a second comment line) for a key, it returns without throwing, with
\* state.loaded true and state.error the duplicate-key error prefixed with the
\* name of the file and the 1-based number of the line of the second
\* occurrence; from then until the next load() every gated operation throws
\* NotResolved wrapping that error and the error stays; the next load() starts
\* with the error cleared, so it ends without an error when the files are clean.
DuplicateKeyCaptured ==
  /\ [](\A fileName \in DOMAIN disk : \A n \in 1..Len(disk[fileName]) :
          DuplicateMet(disk, fileName, n) =>
            /\ load(World).exc = NoError
            /\ load(World).loaded
            /\ load(World).error = DuplicateAt(fileName, disk[fileName][n], n))
  /\ [](error.code = "DuplicateKey" =>
          /\ loaded
          /\ \A r \in GatedResults(World) :
               r.exc = NotResolvedError(error) /\ r.error = error
          /\ (\A name \in DOMAIN disk : FileClean(disk[name])) =>
               load(World).error = NoError)
  /\ [][(error.code = "DuplicateKey" /\ call'.op # "load") => error' = error]_vars

\* load() has returned with the duplicate at line 3 of file e captured
DuplicateKeyCapturedReached ==
  /\ call.op = "load" /\ call.exc = "none"
  /\ loaded
  /\ error.code = "DuplicateKey"
  /\ error.file = FileE /\ error.line = 3
  /\ DuplicateMet(disk, FileE, 3)

----------------------------------------------------------------------------
(* Edits and their undoing *)

\* C3: from a loaded state without an error and with an empty pending log, in
\* which original has an entry for (file, key), updateValue of a value other
\* than the baseline one followed by revert of (file, key) leaves
\* updated[fullKey] equal to the original entry, no entry of fullKey in
\* updates.before and updates.after, and no update-prefixed line in the file.
RevertRestores ==
  (Ready /\ LogEmpty(World)) =>
    \A fileName \in DOMAIN disk, key \in ValidKeyArgs, value \in ValueArgs :
      (/\ Has(original, FullKey(fileName, key))
       /\ value # original[FullKey(fileName, key)].value) =>
        LET r == revert(updateValue(World, fileName, key, value), fileName, key)
        IN  /\ r.exc = NoError
            /\ Has(r.updated, FullKey(fileName, key))
            /\ r.updated[FullKey(fileName, key)] = original[FullKey(fileName, key)]
            /\ ~Has(r.updates.before, FullKey(fileName, key))
            /\ ~Has(r.updates.after, FullKey(fileName, key))
            /\ PendingLines(r.disk[fileName]) = <<>>

\* C4: after an edit operation (updateValue, updateApproved, updateComment,
\* updateTranslation) has returned, an empty pending log means that no locale
\* file holds an update-prefixed line: the save the optimizer triggers is not
\* followed by the append of the log line of the edit.
NoStaleLogLine ==
  \A r \in EditResults(World, DOMAIN disk) :
    (r.exc = NoError /\ LogEmpty(r)) => NoPendingLine(r)

----------------------------------------------------------------------------
(* Structural operations on keys *)

\* "-key=": the update a new key gets in a file
EmptyValueLine(key) == Pending(ValueLine(NotApprovedLine, key, <<>>))

\* "!key" behind the update marker
DeleteLine(key) == Pending(<<DeleteKeyLine>> \o key)

\* C5: addKey of a valid key that is not registered, with at least one locale
\* file, returns normally; the key is then in the Key Registry at its sorted
\* position, every locale file has got one more line, the update-prefixed
\* not-approved line with an empty value for the key, and updated holds for
\* the key in every file an entry with value '' and approved false.
AddKeyAdds ==
  Ready =>
    \A key \in ValidKeyArgs :
      (~Contains(keys, key) /\ Len(_findI18nFiles(World)) > 0) =>
        LET r == addKey(World, key)
        IN  /\ r.exc = NoError
            /\ r.keys = insert(keys, sortedIndexOf(keys, key), key)
            /\ \A name \in DOMAIN disk :
                 /\ r.disk[name] = Append(disk[name], EmptyValueLine(key))
                 /\ Has(r.updated, FullKey(name, key))
                 /\ r.updated[FullKey(name, key)].value = <<>>
                 /\ r.updated[FullKey(name, key)].approved = "false"

\* C6: deleteKey of a registered key returns normally; the key is then out of
\* the Key Registry, every locale file has got one more line, the
\* update-prefixed delete line of the key, updated holds no entry of the key
\* in any file, and a change notification is scheduled.
DeleteKeyDeletes ==
  Ready =>
    \A key \in ValidKeyArgs :
      Contains(keys, key) =>
        LET r == deleteKey(World, key)
        IN  /\ r.exc = NoError
            /\ ~Contains(r.keys, key)
            /\ \A name \in DOMAIN disk :
                 /\ r.disk[name] = Append(disk[name], DeleteLine(key))
                 /\ ~Has(r.updated, FullKey(name, key))
            /\ r.waitingChange /\ r.timerChange > 0

\* C7: renameKey with fromKey registered and toKey valid, not registered and
\* other than fromKey returns normally; toKey is then registered, fromKey is
\* not and has no working entry in any file: copyKey followed by deleteKey.
RenameKeyRenames ==
  Ready =>
    \A fromKey \in ValidKeyArgs, toKey \in ValidKeyArgs :
      (fromKey # toKey /\ Contains(keys, fromKey) /\ ~Contains(keys, toKey)
       /\ Len(_findI18nFiles(World)) > 0) =>
        LET r == renameKey(World, fromKey, toKey)
        IN  /\ r.exc = NoError
            /\ Contains(r.keys, toKey)
            /\ ~Contains(r.keys, fromKey)
            /\ \A name \in DOMAIN disk : ~Has(r.updated, FullKey(name, fromKey))

\* the fields copyKey is to carry over
SameFields(t, u) ==
  t.comment = u.comment /\ t.value = u.value /\ t.approved = u.approved

\* C8: copyKey with fromKey registered and toKey valid, not registered and
\* other than fromKey: toKey is then registered, and for every locale file
\* updated[FullKey(file, toKey)] has the comment, value and approved that
\* updated[FullKey(file, fromKey)] had before the call, and the entries of
\* fromKey are as they were.
CopyKeyCopies ==
  Ready =>
    \A fromKey \in ValidKeyArgs, toKey \in ValidKeyArgs :
      (/\ fromKey # toKey /\ Contains(keys, fromKey) /\ ~Contains(keys, toKey)
       /\ Len(_findI18nFiles(World)) > 0
       /\ \A name \in DOMAIN disk : Has(updated, FullKey(name, fromKey))) =>
        LET r == copyKey(World, fromKey, toKey)
        IN  /\ Contains(r.keys, toKey)
            /\ \A name \in DOMAIN disk :
                 /\ Has(r.updated, FullKey(name, toKey))
                 /\ SameFields(r.updated[FullKey(name, toKey)],
                               updated[FullKey(name, fromKey)])
                 /\ Has(r.updated, FullKey(name, fromKey))
                 /\ r.updated[FullKey(name, fromKey)] = updated[FullKey(name, fromKey)]

\* C9: addKey of a key that is in the Key Registry throws key-exists, and
\* addKey of a valid key that is not registered throws no-locale-files when
\* there is no locale file; either way the Key Registry, the working view and
\* the pending log are as they were and nothing is appended to any file.
AddKeyRejects ==
  Ready =>
    \A key \in ValidKeyArgs :
      /\ Contains(keys, key) =>
           addKey(World, key) = Throw(World, KeyExistError(key))
      /\ (~Contains(keys, key) /\ Len(_findI18nFiles(World)) = 0) =>
           addKey(World, key) = Throw(World, NoI18nFilesError)

\* addKey has thrown key-exists for a key of the registry
AddKeyRejectsReached ==
  /\ call.op = "addKey" /\ call.exc = "KeyExist"
  /\ Ready
  /\ \E key \in ValidKeyArgs : Contains(keys, key)

----------------------------------------------------------------------------
(* Structural operations on files *)

\* C10: addFile and deleteFile, called while the pending log is not empty,
\* throw UnappliedChanges before a file is created or deleted: the state of
\* the engine and every file are as they were.
FileOpsNeedCleanLog ==
  (Ready /\ _updateKeys(World) # {}) =>
    \A fileName \in FileArgs \cup {Undef} :
      /\ addFile(World, fileName) = Throw(World, UnappliedChangesError)
      /\ deleteFile(World, fileName) = Throw(World, UnappliedChangesError)

\* addFile has been refused because of a pending update
FileOpsNeedCleanLogReached ==
  /\ call.op \in {"addFile", "deleteFile"} /\ call.exc = "UnappliedChanges"
  /\ Ready
  /\ _updateKeys(World) # {}

----------------------------------------------------------------------------
(* The layout of a directory, read off the lines of its files *)

IsCommentLine(line) == CharAt(line, 0) = CommentLine
IsValueLine(line) == CharAt(line, 0) \in {ApprovedLine, NotApprovedLine}
LineKey(line) == _parseLine(line, 0).key
LinePayload(line) == _parseLine(line, 0).value

\* the keys of the value lines of a file, in the order of the lines
KeyOrder(lines) ==
  [i \in 1..Len(SelectSeq(lines, IsValueLine)) |->
     LineKey(SelectSeq(lines, IsValueLine)[i])]

\* every line is a comment line or a value line of the baseline, no key has
\* two value lines or two comment lines, and a comment line stands right
\* before the value line of its key
BlocksPerKey(lines) ==
  /\ \A n \in 1..Len(lines) :
       /\ Len(lines[n]) > 0
       /\ IsCommentLine(lines[n]) \/ IsValueLine(lines[n])
       /\ ParsesAt(lines[n], 0)
       /\ ~SecondOccurrence(lines, n)
       /\ IsCommentLine(lines[n]) =>
            /\ n < Len(lines)
            /\ IsValueLine(lines[n + 1])
            /\ LineKey(lines[n + 1]) = LineKey(lines[n])

HasCommentLine(lines, key) ==
  \E n \in 1..Len(lines) : IsCommentLine(lines[n]) /\ LineKey(lines[n]) = key

\* some file has a comment (a value) for the key that is not blank
SomePayload(files, key, comments) ==
  \E name \in DOMAIN files : \E n \in 1..Len(files[name]) :
    /\ IsCommentLine(files[name][n]) = comments
    /\ LineKey(files[name][n]) = key
    /\ Len(Trim(LinePayload(files[name][n]))) > 0

\* The files hold the same keys in the same order, every key with a value line
\* in every file; the comment line of a key is in every file or in none, and
\* some file gives the key a comment (when there are comment lines) or a
\* value (when there are none) that is not blank.
Aligned(files) ==
  /\ \A name \in DOMAIN files : BlocksPerKey(files[name])
  /\ \A name \in DOMAIN files, other \in DOMAIN files :
       /\ KeyOrder(files[name]) = KeyOrder(files[other])
       /\ \A i \in 1..Len(KeyOrder(files[name])) :
            HasCommentLine(files[name], KeyOrder(files[name])[i])
              = HasCommentLine(files[other], KeyOrder(files[name])[i])
  /\ \A name \in DOMAIN files : \A i \in 1..Len(KeyOrder(files[name])) :
       SomePayload(files, KeyOrder(files[name])[i],
                   HasCommentLine(files[name], KeyOrder(files[name])[i]))

\* C11 as stated: for locale files that load() accepts without an error and
\* that hold no update-prefixed line, load() followed at once by save()
\* leaves every file as it was, line for line.
RoundTripAnyFiles ==
  (/\ NoPendingLine(World)
   /\ load(World).exc = NoError
   /\ load(World).error = NoError) =>
    save(load(World)).disk = disk

\* C11: for locale files in the layout of save() (the same keys in the same
\* order in every file, a value line per key and file, comment lines in every
\* file or in none), load() followed at once by save() returns normally and
\* leaves every file as it was, line for line.
RoundTripAligned ==
  Aligned(disk) =>
    /\ load(World).error = NoError
    /\ save(load(World)).exc = NoError
    /\ save(load(World)).disk = disk

\* load() and then save() have run on two aligned files
RoundTripAlignedReached ==
  /\ calls = 2 /\ call.op = "save" /\ call.exc = "none"
  /\ disk = DiskHello
  /\ Aligned(disk)

----------------------------------------------------------------------------
(* Invariants of the engine state *)

\* C18: after every public operation, whether it returns or throws (a load()
\* that captures an error part-way through the replay of pending lines
\* included), updates.length is the number of distinct FullKeys of
\* updates.before and updates.after together.
LengthIsUnionSize == updates.length = Cardinality(_updateKeys(World))

Range(array) == {array[i] : i \in 1..Len(array)}

\* ascending, hence without duplicates
Ascending(array) ==
  \A i \in 1..Len(array), j \in 1..Len(array) : i < j => StrLess(array[i], array[j])

\* C19: after load() and after any sequence of addKey, copyKey, renameKey and
\* deleteKey, state.keys.array is in ascending lexicographic order without
\* duplicates, whatever the order of the keys in the locale files.
RegistrySorted == Ascending(keys)

\* the key of line n of a file, baseline or pending
KeyOfLine(line) ==
  IF IsPending(line) THEN _parseLine(line, 1).key ELSE _parseLine(line, 0).key

IsDeleteLine(line) == IsPending(line) /\ CharAt(line, 1) = DeleteKeyLine

\* the keys some line of some file names, but for those whose last pending
\* line in a file is a delete line
KeysOfFiles(files) ==
  {key \in UNION {{KeyOfLine(files[name][n]) : n \in 1..Len(files[name])} :
                    name \in DOMAIN files} :
     \A name \in DOMAIN files : \A n \in 1..Len(files[name]) :
       (IsDeleteLine(files[name][n]) /\ SubstringFrom(files[name][n], 2) = key) =>
         \E m \in (n + 1)..Len(files[name]) :
           IsPending(files[name][m]) /\ ~IsDeleteLine(files[name][m])
           /\ KeyOfLine(files[name][m]) = key}

\* C20: after a load() without error the Key Registry holds exactly the keys
\* seen in some line of some locale file, baseline or pending, less the keys
\* the replayed delete lines remove: a key that occurs in pending lines only
\* is registered.
RegistryHoldsSeenKeys ==
  (load(World).exc = NoError /\ load(World).error = NoError) =>
    Range(load(World).keys) = KeysOfFiles(disk)

\* C17: the line reader load() opens on a locale file is closed before the
\* reader of the next file is opened and before load() returns, on every
\* path, those of a malformed line and of a duplicate key included: between
\* two calls no reader is open.
ReadersClosed == readers = {}

----------------------------------------------------------------------------
(* The codec of payloads *)

\* C12: for every value or comment v that holds line breaks, decoding the
\* encoded payload gives v back, unsafeValue$(safeValue$(v)) = v, and the
\* encoded payload holds no line break.
CodecRoundTrip ==
  (codec.stage = "decoded" /\ IndexOf(codec.plain, NewLine) >= 0) =>
    /\ codec.decoded = codec.plain
    /\ IndexOf(codec.encoded, NewLine) = -1

\* what a listener is handed when the timer of _triggerChange fires now
Snapshot == _cloneState(World)

\* C13: the throttle around _triggerChange (delay 0) keeps at most one timer
\* pending, and `waiting` is set while one is pending; a call made
\* while the timer is pending sets no other timer and hands the listener
\* nothing; when the timer fires the listener is handed exactly one snapshot,
\* and it is the state of that moment.
ThrottleOnce ==
  /\ [](timerChange <= 1 /\ (timerChange = 1 => waitingChange))
  /\ [][(waitingChange /\ call'.op # "timeoutChange")
          => (timerChange' = timerChange /\ notified' = notified)]_vars
  /\ [][(call'.op = "timeoutChange" /\ _onChange)
          => (timerChange' = 0 /\ notified' = Append(notified, Snapshot')
                               /\ Snapshot' = Snapshot)]_vars

\* connect() has set the timer, a value was set while it was pending, and the
\* one snapshot handed over when it fired shows the pending line of that edit
ThrottleOnceReached ==
  /\ calls = 2 /\ call.op = "timeoutChange"
  /\ timerChange = 0 /\ ~waitingChange
  /\ Len(notified) = 1
  /\ notified[1].updates.length = 1
  /\ notified[1] = Snapshot

\* C14: a call of the auto-export action that comes while an export is
\* pending puts the export off: it is then due one full window (300 ms)
\* after this call, so that it fires only after a quiet window.
ExportWaitsForQuiet ==
  [][(calls' > calls /\ call'.op = "watchExportModule" /\ timerExport = 1)
       => (timerExport' = 1 /\ dueExport' = now' + 300)]_vars

\* load() is scheduled by the step from w to r
SchedulesLoad(w, r) == r.timerLoad > w.timerLoad \/ (r.waitingLoad /\ ~w.waitingLoad)

\* C15: once connect() has installed the watch callback, an event schedules
\* load() only if it names a locale file and comes more than 1000 ms after
\* _lastTimeUpdated, and then the load is due 300 ms later unless one is
\* pending; a locale-file event within 1000 ms changes nothing; an event
\* for the export module schedules no load, adds one to _exportChangeIndex
\* and requests the auto-export; an event for another file changes nothing.
WatchSchedulesLoad ==
  _onChange =>
    /\ \A fileName \in FileArgs :
         LET r == watchCallback(World, fileName)
         IN  /\ r.exc = NoError
             /\ SchedulesLoad(World, r) => now > _lastTimeUpdated + 1000
             /\ now <= _lastTimeUpdated + 1000 => r = World
             /\ (now > _lastTimeUpdated + 1000 /\ ~waitingLoad)
                  => (r.waitingLoad /\ r.timerLoad = timerLoad + 1
                                    /\ r.dueLoad = now + 300)
             /\ r._exportChangeIndex = _exportChangeIndex
             /\ r.timerExport = timerExport
    /\ LET r == watchCallback(World, I18nJs)
       IN  /\ r.exc = NoError
           /\ ~SchedulesLoad(World, r)
           /\ r._exportChangeIndex = _exportChangeIndex + 1
           /\ r.waitingExport
           /\ ~waitingExport => (r.timerExport = timerExport + 1
                                   /\ r.dueExport = now + 300)
    /\ watchCallback(World, OtherFile) = World

\* a locale-file event that came 1100 ms after the engine's last write has
\* scheduled load()
WatchSchedulesLoadReached ==
  /\ call.op = "watchLocaleFile" /\ call.exc = "none"
  /\ _lastTimeUpdated > 2000
  /\ now = _lastTimeUpdated + 1100
  /\ waitingLoad /\ timerLoad = 1 /\ dueLoad = now + 300

\* the registered keys that have a working entry for the file, in registry order
KeysWithEntry(fileName) ==
  SelectSeq(keys, LAMBDA key : Has(updated, FullKey(fileName, key)))

\* open, one write for each of these keys, close
FileBlock(fileName) ==
  << HookCall("open", fileName, <<>>) >>
  \o [i \in 1..Len(KeysWithEntry(fileName)) |->
        HookCall("write", fileName, KeysWithEntry(fileName)[i])]
  \o << HookCall("close", fileName, <<>>) >>

RECURSIVE FileBlocks(_)
FileBlocks(files) ==
  IF Len(files) = 0 THEN <<>>
  ELSE FileBlock(Head(files)) \o FileBlocks(Tail(files))

\* validate once and first when the exporter has it, then one block for each
\* locale file, in the order of the files
ExpectedHooks ==
  (IF exporter.validate THEN << HookCall("validate", <<>>, <<>>) >> ELSE <<>>)
  \o FileBlocks(SelectSeq(FileOrder, LAMBDA name : name \in DOMAIN disk))

\* the place of the first call of a hook among the calls, 0 if there is none
FirstCall(hookCalls, hook) ==
  IF \E i \in 1..Len(hookCalls) : hookCalls[i].hook = hook
  THEN CHOOSE i \in 1..Len(hookCalls) :
         /\ hookCalls[i].hook = hook
         /\ \A j \in 1..(i - 1) : hookCalls[j].hook # hook
  ELSE 0

\* what export() has to leave behind when the calls it has to make are
\* `expected` and the hook `throws` throws
ExportedAs(r, expected, first) ==
  /\ [r EXCEPT !.hooks = hooks, !.exc = NoError] = World
  /\ IF first = 0
     THEN r.exc = NoError /\ r.hooks = expected
     ELSE /\ r.exc.code = "Export" /\ r.exc.cause = "Hook"
          /\ r.hooks = SubSeq(expected, 1, first)

\* C16: on a loaded state without captured error and with an exporter,
\* export() calls validate (if the exporter has it) once and first, then for
\* each locale file in turn open, write for each registered key that has a
\* working entry for the file, in registry order, and close, before it opens
\* the next file; it leaves the engine state alone; when a hook throws, the
\* calls stop with that one and export() throws ExportError around its error.
ExportCallsHooks ==
  (loaded /\ error = NoError /\ exporter.configured) =>
    LET expected == ExpectedHooks
    IN  \A type \in {"manual", "auto"}, throws \in Throws :
          ExportedAs(export(World, type, throws), expected,
                     FirstCall(expected, throws))

\* export() has returned normally after validate and, for each of two files,
\* open, one write and close
ExportCallsHooksReached ==
  /\ call.op = "export" /\ call.exc = "none"
  /\ loaded /\ Len(keys) = 2
  /\ hooks = << HookCall("validate", <<>>, <<>>),
                HookCall("open", FileE, <<>>), HookCall("write", FileE, KeyA),
                HookCall("close", FileE, <<>>),
                HookCall("open", FileF, <<>>), HookCall("write", FileF, KeyB),
                HookCall("close", FileF, <<>>) >>

----------------------------------------------------------------------------
(* save() *)

\* a field of an entry that is there and not blank
NonBlank(field) == field # Undef /\ Trim(field) # <<>>

\* some file has, in the working view, a comment for the key that is not blank
SomeComment(view, names, key) ==
  \E name \in names :
    Has(view, FullKey(name, key)) /\ NonBlank(view[FullKey(name, key)].comment)

\* some file has a comment or a value for the key that is not blank
SomeCommentOrValue(view, names, key) ==
  \/ SomeComment(view, names, key)
  \/ \E name \in names :
       Has(view, FullKey(name, key)) /\ NonBlank(view[FullKey(name, key)].value)

\* the keys of the comment lines of a file, in the order of the lines
CommentKeyOrder(lines) ==
  [i \in 1..Len(SelectSeq(lines, IsCommentLine)) |->
     LineKey(SelectSeq(lines, IsCommentLine)[i])]

\* the layout of the files for a registry and a working view
SavedLayout(files, registry, view) ==
  /\ \A name \in DOMAIN files, other \in DOMAIN files :
       /\ Len(files[name]) = Len(files[other])
       /\ \A n \in 1..Len(files[name]) :
            /\ IsCommentLine(files[name][n]) = IsCommentLine(files[other][n])
            /\ IsValueLine(files[name][n]) = IsValueLine(files[other][n])
            /\ LineKey(files[name][n]) = LineKey(files[other][n])
  /\ \A name \in DOMAIN files :
       /\ \A n \in 1..Len(files[name]) :
            /\ ~IsPending(files[name][n])
            /\ IsCommentLine(files[name][n]) \/ IsValueLine(files[name][n])
       /\ KeyOrder(files[name])
            = SelectSeq(registry,
                        LAMBDA key : SomeCommentOrValue(view, DOMAIN files, key))
       /\ CommentKeyOrder(files[name])
            = SelectSeq(registry,
                        LAMBDA key : SomeComment(view, DOMAIN files, key))

\* C21: save() on a loaded state without captured error returns normally
\* and leaves every locale file with the same number of lines, the same kind
\* of line and the same key at each place, no update-prefixed line, the
\* registered keys in registry order, a comment line for a registered key in
\* every file exactly if some file has a comment for it that is not blank,
\* and a value line exactly if some file has such a comment or value.
SaveAligns ==
  Ready =>
    /\ save(World).exc = NoError
    /\ DOMAIN save(World).disk = DOMAIN disk
    /\ SavedLayout(save(World).disk, keys, updated)

\* save() has written a comment line into both files for a key that has a
\* comment in one of them only
SaveAlignsReached ==
  /\ calls = 3 /\ call.op = "save" /\ call.exc = "none"
  /\ DOMAIN disk = {FileE, FileF}
  /\ Len(disk[FileE]) = 2 /\ Len(disk[FileF]) = 2
  /\ disk[FileE][1] = ValueLine(CommentLine, KeyA, <<"c">>)
  /\ disk[FileF][1] = ValueLine(CommentLine, KeyA, <<>>)

\* C22: save() on a loaded state without captured error leaves the pending
\* log empty, original equal to the working view as it was before the call,
\* and the working view with those same entries, so that a second save()
\* right after it writes the same files again.
SaveKeepsView ==
  Ready =>
    /\ LogEmpty(save(World))
    /\ save(World).original = updated
    /\ save(World).updated = updated
    /\ save(save(World)).exc = NoError
    /\ save(save(World)).disk = save(World).disk

\* C23: once the timer of _triggerChange has fired and the listener has been
\* handed the snapshot, whether it returned or threw, the flag `changed` of
\* the registry, as the next snapshot reports it, is false.
ChangedCleared ==
  (call.op = "timeoutChange" /\ _onChange) => ~Snapshot.changed

\* the entry the view holds for a full key; a key without one has no field set
EntryOf(view, fullKey) ==
  IF Has(view, fullKey) THEN view[fullKey] ELSE UndefinedEntry

\* C24: on a loaded engine, for a locale file and a registered key,
\* updateValue leaves the comment of the working entry as it was (also a
\* comment only the baseline holds so far), updateComment leaves its value
\* and approved as they were, and updateApproved leaves its comment.
UpdateKeepsOtherFields ==
  Ready =>
    \A fileName \in DOMAIN disk, i \in 1..Len(keys) :
      /\ \A value \in ValueArgs :
           ~Thrown(updateValue(World, fileName, keys[i], value)) =>
             EntryOf(updateValue(World, fileName, keys[i], value).updated,
                     FullKey(fileName, keys[i])).comment
               = EntryOf(updated, FullKey(fileName, keys[i])).comment
      /\ \A comment \in CommentArgs :
           ~Thrown(updateComment(World, fileName, keys[i], comment)) =>
             /\ EntryOf(updateComment(World, fileName, keys[i], comment).updated,
                        FullKey(fileName, keys[i])).value
                  = EntryOf(updated, FullKey(fileName, keys[i])).value
             /\ EntryOf(updateComment(World, fileName, keys[i], comment).updated,
                        FullKey(fileName, keys[i])).approved
                  = EntryOf(updated, FullKey(fileName, keys[i])).approved
      /\ \A approved \in ApprovedArgs :
           ~Thrown(updateApproved(World, fileName, keys[i], approved)) =>
             EntryOf(updateApproved(World, fileName, keys[i], approved).updated,
                     FullKey(fileName, keys[i])).comment
               = EntryOf(updated, FullKey(fileName, keys[i])).comment

\* the call that left the world r threw, and changed neither the Key Registry
\* nor the pending log
FailedKeeps(r) == Thrown(r) => (r.keys = keys /\ r.updates = updates)

\* C25: a call of addKey, copyKey, renameKey or deleteKey that throws leaves
\* the Key Registry and the pending log as they were before the call.
FailedKeyCallKeeps ==
  /\ \A key \in KeyArgs :
       FailedKeeps(addKey(World, key)) /\ FailedKeeps(deleteKey(World, key))
  /\ \A fromKey \in KeyArgs, toKey \in KeyArgs :
       /\ FailedKeeps(copyKey(World, fromKey, toKey))
       /\ FailedKeeps(renameKey(World, fromKey, toKey))

\* load() after the loop over the locale files: the world, and the keys read
Replayed == loadFiles([w |-> _resetState(World), keys |-> <<>>],
                      _findI18nFiles(World))

\* the pending lines of the files net to no change: the replay has left keys
\* in the log, and the optimizer takes every one of them out
NetsToNothing(replayed) ==
  /\ ~Thrown(replayed.w)
  /\ _updateKeys(replayed.w) # {}
  /\ _updateKeys(forEachUpdateKey(replayed.w, _updateKeys(replayed.w),
                                  "optimize", Undef, Undef)) = {}

\* the line is a value line of the baseline
BaselineValue(line) ==
  ~IsPending(line) /\ CharAt(line, 0) \in {ApprovedLine, NotApprovedLine}

\* C26: when the pending lines load() replays net to no change, load() returns
\* without throwing, with loaded = true and error = null, every key of the
\* baseline is in the Key Registry, and every value line of the baseline is
\* still in its file.
LoadOptimizesAway ==
  NetsToNothing(Replayed) =>
    /\ load(World).exc = NoError
    /\ load(World).loaded
    /\ load(World).error = NoError
    /\ \A i \in 1..Len(Replayed.keys) : Contains(load(World).keys, Replayed.keys[i])
    /\ \A name \in DOMAIN disk :
         \A i \in 1..Len(disk[name]) :
           BaselineValue(disk[name][i]) =>
             /\ name \in DOMAIN load(World).disk
             /\ \E j \in 1..Len(load(World).disk[name]) :
                  load(World).disk[name][j] = disk[name][i]

\* C27: once the timer of the throttle around _triggerChange has fired,
\* whether the listener returned or threw, the throttle takes the next call:
\* that call sets a new timer.
ThrottleRecovers ==
  call.op = "timeoutChange" =>
    _triggerChange(World).timerChange = timerChange + 1

====
